---- MODULE Spec2Model ----
(***************************************************************************)
(* A model of agents/audio_agent.py (class AudioAgent): construction with  *)
(* the model registry loop (_load_models) and one call of analyze, with    *)
(* its stages preprocess_audio, extract_features, transcribe_audio and the *)
(* dispatch loop over self.models.                                         *)
(*                                                                         *)
(* External libraries (librosa, pydub, whisper, torch) are the             *)
(* environment: each call either returns or raises, chosen with \E.  The   *)
(* message of a raised exception is whatever the library put in it, so it  *)
(* is drawn from a set that contains the empty string (an exception        *)
(* raised with no arguments has str(e) = "").                              *)
(***************************************************************************)
EXTENDS Integers, Sequences, FiniteSets, TLC

VARIABLES
    config,       \* the toggles of self.config (keys may be absent)
    modelNames,   \* keys of config["models"] in dict order
    audio_path,   \* the file named by analyze's argument
    pc,           \* position of the program
    i,            \* index of the running for loop (load or dispatch)
    models,       \* keys of self.models in insertion order
    raised,       \* history: names whose loading raised inside the try
    attempted,    \* history: names the load loop has entered
    results,      \* the dict analyze builds and returns
    audio,        \* sample count of the preprocessed audio (-1: none yet)
    inputs,       \* history: name -> shape of the tensor passed to the model
    invoked,      \* history: names whose model was called, in order
    transFailed,  \* history: the whisper call raised
    escaped,      \* history: <<message>> of the exception analyze caught
    outcome       \* "none" | "returned" | "raised": how analyze ended

vars == <<config, modelNames, audio_path, pc, i, models, raised, attempted,
          results, audio, inputs, invoked, transFailed, escaped, outcome>>

----------------------------------------------------------------------------
(* Bounds and input domains *)

\* number of entries of config["models"]
MaxModels == 2

\* sample counts of the decoded clips
Lens == {9, 5000, 9954, 10000, 10055, 32000}

\* raw network outputs per class
LogitValues == {0, 1}

\* str(e) of an exception raised while decoding
DecodeMsgs == {"", "decode failed"}

FeatureMsg == "feature extraction failed"
InferenceMsg == "inference failed"
ShapeMsg == "mat1 and mat2 shapes cannot be multiplied"
EmotionMsg == "pipeline failed"

----------------------------------------------------------------------------
(* Program constants *)

KnownNames == {"cough_classifier", "breathing_analyzer", "voice_analyzer",
               "emotion_detector"}

ToggleKeys == {"extract_mfcc", "extract_spectral_centroid", "extract_chroma",
               "extract_tempo", "transcribe"}

WindowLen == 10000
KernelSize == 10
Stride == 5
PoolSize == 2
FcInLen == 99
NMfccDefault == 13

CoughClasses == <<"normal", "covid", "pneumonia", "bronchitis">>
BreathingClasses == <<"normal", "wheezy", "crackle", "stridor", "rhonchi">>
VoiceOutputs == 3

----------------------------------------------------------------------------
(* Helpers *)

Range(s) == {s[k] : k \in 1..Len(s)}

\* dict.get(key, default)
ConfigGet(cfg, key, default) == IF key \in DOMAIN cfg THEN cfg[key] ELSE default

\* d[key] = value on a dict held as a function
DictSet(d, key, value) == (key :> value) @@ d

\* sequences of distinct names, at most n long
DistinctSeqs(S, n) ==
    UNION {{s \in [1..k -> S] : \A a, b \in 1..k : a # b => s[a] # s[b]} : k \in 0..n}

Configs == [ToggleKeys -> BOOLEAN] \cup {<<>>}

Files == {[ok |-> FALSE, n |-> 0]} \cup {[ok |-> TRUE, n |-> n] : n \in Lens}

----------------------------------------------------------------------------
(* Construction: __init__ and _load_models *)

Init ==
    /\ config \in Configs
    /\ modelNames \in DistinctSeqs(KnownNames, MaxModels)
    /\ audio_path \in Files
    /\ pc = "load"
    /\ i = 1
    /\ models = <<>>
    /\ raised = {}
    /\ attempted = {}
    /\ results = <<>>
    /\ audio = -1
    /\ inputs = <<>>
    /\ invoked = <<>>
    /\ transFailed = FALSE
    /\ escaped = <<>>
    /\ outcome = "none"

\* _load_cough_classifier / _load_breathing_analyzer with the weight file in
\* state w: a missing file keeps the fresh weights, a corrupt one makes
\* torch.load / load_state_dict raise.
LoadStructural(w) == [raised |-> (w = "corrupt")]

\* One iteration body of the loop in _load_models, for name, with the
\* weight file in state w: the new self.models and whether the body raised.
LoadOne(name, w, ms) ==
    CASE name \in {"cough_classifier", "breathing_analyzer"} ->
           IF LoadStructural(w).raised
           THEN [models |-> ms, raised |-> TRUE]
           ELSE [models |-> IF name \in Range(ms) THEN ms ELSE Append(ms, name),
                 raised |-> FALSE]
      [] name \in {"voice_analyzer", "emotion_detector"} ->
           \* self.models[name] == ... reads the key before comparing: a
           \* KeyError when absent; when present the comparison assigns nothing
           \* (voice_analyzer then calls the undefined _load_voice_ananlyzer).
           IF name \in Range(ms)
           THEN [models |-> ms, raised |-> (name = "voice_analyzer")]
           ELSE [models |-> ms, raised |-> TRUE]
      [] OTHER -> [models |-> ms, raised |-> FALSE]

\* A load loop that gives up at the first name that raises.
LoadNextIndex_Abort(idx, didRaise) ==
    IF didRaise THEN Len(modelNames) + 1 ELSE idx + 1

\* The except clause of _load_models: log and go on with the next name.
LoadNextIndex(idx, didRaise) == idx + 1

LoadModel ==
    /\ pc = "load"
    /\ i <= Len(modelNames)
    /\ \E w \in {"present", "missing", "corrupt"} :
         LET r == LoadOne(modelNames[i], w, models) IN
           /\ models' = r.models
           /\ raised' = IF r.raised THEN raised \cup {modelNames[i]} ELSE raised
           /\ attempted' = attempted \cup {modelNames[i]}
           /\ i' = LoadNextIndex(i, r.raised)
    /\ UNCHANGED <<config, modelNames, audio_path, pc, results, audio, inputs,
                   invoked, transFailed, escaped, outcome>>

LoadDone ==
    /\ pc = "load"
    /\ i > Len(modelNames)
    /\ pc' = "ready"
    /\ UNCHANGED <<config, modelNames, audio_path, i, models, raised, attempted,
                   results, audio, inputs, invoked, transFailed, escaped, outcome>>

----------------------------------------------------------------------------
(* analyze and its stages *)

\* A handler that re-raises instead of returning the report.
AnalyzeExcept_Reraise(res, msg) == [results |-> res, outcome |-> "raised"]

\* The except clause of analyze: the message goes into results["error"] and
\* the partial results are returned.
AnalyzeExcept(res, msg) ==
    [results |-> DictSet(res, "error", msg), outcome |-> "returned"]

Caught(msg) ==
    LET h == AnalyzeExcept(results, msg) IN
      /\ results' = h.results
      /\ outcome' = h.outcome
      /\ escaped' = <<msg>>
      /\ pc' = "done"

\* analyze is called: results = {}
AnalyzeCall ==
    /\ pc = "ready"
    /\ results' = <<>>
    /\ pc' = "preprocess"
    /\ UNCHANGED <<config, modelNames, audio_path, i, models, raised, attempted,
                   audio, inputs, invoked, transFailed, escaped, outcome>>

\* preprocess_audio: returns the samples, or logs and re-raises what the
\* decoding libraries raised.
PreprocessAudio(file) == [raised |-> ~file.ok, n |-> file.n]

Preprocess ==
    /\ pc = "preprocess"
    /\ LET r == PreprocessAudio(audio_path) IN
         IF r.raised
         THEN /\ \E msg \in DecodeMsgs : Caught(msg)
              /\ UNCHANGED audio
         ELSE /\ audio' = r.n
              /\ pc' = "features"
              /\ UNCHANGED <<results, escaped, outcome>>
    /\ UNCHANGED <<config, modelNames, audio_path, i, models, raised, attempted,
                   inputs, invoked, transFailed>>

\* extract_features: the keys of the returned dict, each with the number of
\* floats it holds.
ExtractFeatures(cfg) ==
    LET keys == (IF ConfigGet(cfg, "extract_mfcc", TRUE) THEN {"mfcc"} ELSE {})
           \cup (IF ConfigGet(cfg, "external_spectral_centroid", TRUE)
                 THEN {"spectral_centroid"} ELSE {})
           \cup (IF ConfigGet(cfg, "extract_chroma", TRUE) THEN {"bandwidth"} ELSE {})
           \cup (IF ConfigGet(cfg, "extract_tempo", TRUE) THEN {"tempo"} ELSE {})
    IN [k \in keys |-> IF k = "mfcc" THEN NMfccDefault ELSE 1]

\* results["features"] = extract_features(audio); a librosa call that raises
\* is not caught in extract_features.
Features ==
    /\ pc = "features"
    /\ \E ok \in BOOLEAN :
         IF ok \/ DOMAIN ExtractFeatures(config) = {}
         THEN /\ results' = DictSet(results, "features", ExtractFeatures(config))
              /\ pc' = "transcribe"
              /\ UNCHANGED <<escaped, outcome>>
         ELSE Caught(FeatureMsg)
    /\ UNCHANGED <<config, modelNames, audio_path, i, models, raised, attempted,
                   audio, inputs, invoked, transFailed>>

\* A transcribe_audio without its try/except: whisper's exception propagates.
TranscribeAudio_Reraise(engineOk) == [raised |-> ~engineOk, text |-> "text"]

\* transcribe_audio: the text whisper returned, or "" when it raised.
TranscribeAudio(engineOk) ==
    [raised |-> FALSE, text |-> IF engineOk THEN "text" ELSE ""]

Transcribe ==
    /\ pc = "transcribe"
    /\ IF ConfigGet(config, "transcribe", TRUE)
       THEN \E engineOk \in BOOLEAN :
              LET r == TranscribeAudio(engineOk) IN
                /\ transFailed' = ~engineOk
                /\ IF r.raised
                   THEN Caught("transcription failed") /\ UNCHANGED i
                   ELSE /\ results' = DictSet(results, "transcript", r.text)
                        /\ pc' = "dispatch"
                        /\ i' = 1
                        /\ UNCHANGED <<escaped, outcome>>
       ELSE /\ pc' = "dispatch"
            /\ i' = 1
            /\ UNCHANGED <<results, transFailed, escaped, outcome>>
    /\ UNCHANGED <<config, modelNames, audio_path, models, raised, attempted,
                   audio, inputs, invoked>>

----------------------------------------------------------------------------
(* The networks and the dispatch loop of analyze *)

\* torch.tensor(audio).float().unsqueeze(0).unsqueeze(0): shape (1, 1, n)
TensorShape(n) == <<1, 1, n>>

\* len() of a tensor is the size of its first dimension
TensorLen(shape) == shape[1]

Min(a, b) == IF a < b THEN a ELSE b

\* model_input[:, :, :10000]
SliceLast(shape, k) == <<shape[1], shape[2], Min(shape[3], k)>>

\* The tensor analyze passes to a network for audio of n samples.
ModelInput(n) ==
    LET model_input == TensorShape(n) IN
      IF TensorLen(model_input) > WindowLen
      THEN SliceLast(model_input, WindowLen)
      ELSE model_input

\* Conv1d(kernel_size=10, stride=5) on length L; -1: the layer raises
ConvOut(L) == IF L < KernelSize THEN -1 ELSE ((L - KernelSize) \div Stride) + 1

\* MaxPool1d(2) on length L; -1: the layer raises (or its input did)
PoolOut(L) == IF L < PoolSize THEN -1 ELSE L \div PoolSize

\* time steps left after conv1, pool, conv2, pool
FeatureLen(n) == PoolOut(ConvOut(PoolOut(ConvOut(n))))

\* forward() on a tensor of the given shape returns (TRUE) or raises: the two
\* classifiers flatten into Linear(128 * 99, 128), the voice analyzer feeds an
\* LSTM that takes any positive number of steps.
ForwardOk(name, shape) ==
    IF name = "voice_analyzer"
    THEN FeatureLen(shape[3]) >= 1
    ELSE FeatureLen(shape[3]) = FcInLen

\* size of the network's output vector
NumOutputs(name) ==
    CASE name = "cough_classifier" -> Len(CoughClasses)
      [] name = "breathing_analyzer" -> Len(BreathingClasses)
      [] name = "voice_analyzer" -> VoiceOutputs
      [] OTHER -> 0

Outputs(name) == [1..NumOutputs(name) -> LogitValues]

RECURSIVE Pow2(_)
Pow2(k) == IF k = 0 THEN 1 ELSE 2 * Pow2(k - 1)

RECURSIVE SumTo(_, _)
SumTo(w, k) == IF k = 0 THEN 0 ELSE w[k] + SumTo(w, k - 1)

\* softmax(output, dim=1)[0] in exact arithmetic: each probability is a pair
\* <<numerator, denominator>>; base 2 stands for e (same order, same sum).
Softmax(output) ==
    LET w == [k \in 1..Len(output) |-> Pow2(output[k])] IN
      [k \in 1..Len(output) |-> <<w[k], SumTo(w, Len(w))>>]

ProbLess(a, b) == a[1] * b[2] < b[1] * a[2]

\* torch.argmax: scan left to right, a later entry wins only when greater
RECURSIVE ArgMaxScan(_, _, _)
ArgMaxScan(probs, k, best) ==
    IF k > Len(probs) THEN best
    ELSE ArgMaxScan(probs, k + 1, IF ProbLess(probs[best], probs[k]) THEN k ELSE best)

\* An argmax that resolves a tie to the last index of the maximum.
ArgMax_Last(probs) ==
    CHOOSE k \in 1..Len(probs) :
        /\ \A j \in 1..Len(probs) : ~ProbLess(probs[k], probs[j])
        /\ \A j \in (k + 1)..Len(probs) : ProbLess(probs[j], probs[k])

ArgMax(probs) == ArgMaxScan(probs, 2, 1)

\* {cls: prob.item() for cls, prob in zip(classes, probs)}
ZipDict(classes, probs) ==
    LET m == Min(Len(classes), Len(probs)) IN
      [c \in {classes[k] : k \in 1..m} |->
         probs[CHOOSE k \in 1..m : classes[k] = c /\ \A j \in (k + 1)..m : classes[j] # c]]

\* the record of cough_classifier and breathing_analyzer
ClassifierRecord(classes, output) ==
    LET probs == Softmax(output)
        class_idx == ArgMax(probs)
    IN [prediction |-> classes[class_idx],
        confidence |-> probs[class_idx],
        probabilities |-> ZipDict(classes, probs)]

\* what analyze stores under results[name] for the network output
PredictionRecord(name, output) ==
    CASE name = "cough_classifier" -> ClassifierRecord(CoughClasses, output)
      [] name = "breathing_analyzer" -> ClassifierRecord(BreathingClasses, output)
      [] name = "voice_analyzer" ->
           [tremor |-> output[1], hoarseness |-> output[2], clarity |-> output[3]]
      [] OTHER -> <<"emotion_result">>

\* One iteration of "for model_name, model in self.models.items()": the model
\* is called; what it raises is not caught inside the loop.
Dispatch ==
    /\ pc = "dispatch"
    /\ i <= Len(models)
    /\ LET name == models[i]
           shape == ModelInput(audio)
       IN
         /\ invoked' = Append(invoked, name)
         /\ inputs' = IF name = "emotion_detector" THEN inputs
                      ELSE DictSet(inputs, name, shape)
         /\ \E fails \in BOOLEAN, output \in Outputs(name) :
              IF name # "emotion_detector" /\ ~ForwardOk(name, shape)
              THEN Caught(ShapeMsg) /\ UNCHANGED i
              ELSE IF fails
              THEN Caught(IF name = "emotion_detector" THEN EmotionMsg ELSE InferenceMsg)
                   /\ UNCHANGED i
              ELSE /\ results' = DictSet(results, name, PredictionRecord(name, output))
                   /\ i' = i + 1
                   /\ UNCHANGED <<pc, escaped, outcome>>
    /\ UNCHANGED <<config, modelNames, audio_path, models, raised, attempted,
                   audio, transFailed>>

\* return results
AnalyzeReturn ==
    /\ pc = "dispatch"
    /\ i > Len(models)
    /\ outcome' = "returned"
    /\ pc' = "done"
    /\ UNCHANGED <<config, modelNames, audio_path, i, models, raised, attempted,
                   results, audio, inputs, invoked, transFailed, escaped>>

Next ==
    \/ LoadModel
    \/ LoadDone
    \/ AnalyzeCall
    \/ Preprocess
    \/ Features
    \/ Transcribe
    \/ Dispatch
    \/ AnalyzeReturn

Spec == Init /\ [][Next]_vars


----------------------------------------------------------------------------
(* Properties *)

AnalyzeStages == {"preprocess", "features", "transcribe", "dispatch"}
StructuralNames == {"cough_classifier", "breathing_analyzer", "voice_analyzer"}
DispatchMsgs == {ShapeMsg, InferenceMsg, EmotionMsg}
ToSet(classes) == {classes[k] : k \in 1..Len(classes)}

\* C1: analyze never raises to its caller: every stage can take its step
\* until analyze has returned, analyze ends by returning the report, and when
\* an exception of a stage reached analyze's handler the report has an
\* "error" key holding that exception's message.
C1_AnalyzeNeverRaises ==
    /\ outcome # "raised"
    /\ pc \in AnalyzeStages => ENABLED Next
    /\ pc = "done" => outcome = "returned"
    /\ escaped # <<>> =>
         /\ pc = "done"
         /\ "error" \in DOMAIN results
         /\ results["error"] = escaped[1]

\* C1 witness: a model invocation raised during dispatch and analyze returned
\* the report with the message under "error".
C1_Witness ==
    /\ pc = "done"
    /\ outcome = "returned"
    /\ invoked # <<>>
    /\ escaped = <<InferenceMsg>>
    /\ results["error"] = InferenceMsg

\* C2: when decoding fails the report is exactly {error: <non-empty string>}
\* and no later stage (features, transcription, any model) was attempted.
C2_DecodeFailureReport ==
    (pc = "done" /\ ~audio_path.ok) =>
        /\ DOMAIN results = {"error"}
        /\ results["error"] # ""
        /\ invoked = <<>>
        /\ ~transFailed
        /\ audio = -1

\* C3: when one loaded model's invocation raises during dispatch (on audio
\* every network accepts), every other loaded model still has its record in
\* the returned report.
C3_DispatchIsolation ==
    (/\ pc = "done"
     /\ Len(models) >= 2
     /\ invoked # <<>>
     /\ escaped = <<InferenceMsg>>) =>
        \A name \in Range(models) \ {invoked[Len(invoked)]} : name \in DOMAIN results

\* C4: loading is failure-isolated per name: the loop can always go on until
\* construction is complete, every configured name is attempted, a name whose
\* loading raised is absent from self.models, and every classifier name whose
\* loading did not raise is in self.models whatever raised before it.
C4_LoadIsolation ==
    /\ pc = "load" => ENABLED Next
    /\ raised \cap Range(models) = {}
    /\ pc # "load" =>
         /\ attempted = Range(modelNames)
         /\ \A name \in Range(modelNames) :
              (name \notin raised /\ name \in {"cough_classifier", "breathing_analyzer"})
                 => name \in Range(models)

\* C4 witness: the first configured name failed to load and the second one
\* was loaded all the same.
C4_Witness ==
    /\ pc = "ready"
    /\ Len(modelNames) = 2
    /\ modelNames[1] \in raised
    /\ modelNames[2] \in Range(models)

\* C5: after construction every structural model named in config.models has
\* an entry in the registry, whatever the state of its weight file.
C5_StructuralAlwaysPresent ==
    pc = "ready" =>
        \A name \in Range(modelNames) \cap StructuralNames : name \in Range(models)

\* C6: the tensor passed to a non-black-box model has exactly 10000 samples
\* when the audio has more than 10000, and the audio's length otherwise.
C6_TruncatedToWindow ==
    \A name \in DOMAIN inputs :
        /\ audio > WindowLen => inputs[name][3] = WindowLen
        /\ audio <= WindowLen => inputs[name][3] = audio

IsClassifierRecord(rec, classes) ==
    /\ DOMAIN rec.probabilities = ToSet(classes)
    /\ Cardinality(DOMAIN rec.probabilities) = Len(classes)
    /\ rec.confidence = rec.probabilities[rec.prediction]
    /\ \E idx \in 1..Len(classes) :
         /\ classes[idx] = rec.prediction
         /\ \A j \in 1..Len(classes) :
              ~ProbLess(rec.confidence, rec.probabilities[classes[j]])
         /\ \A j \in 1..(idx - 1) :
              ProbLess(rec.probabilities[classes[j]], rec.confidence)
    /\ LET nums == [k \in 1..Len(classes) |-> rec.probabilities[classes[k]][1]]
       IN \A k \in 1..Len(classes) :
            rec.probabilities[classes[k]][2] = SumTo(nums, Len(nums))

\* C7: a record written for cough_classifier or breathing_analyzer has
\* exactly the model's labels as the keys of probabilities (4 and 5), its
\* prediction is the label at the first index of the maximum probability, its
\* confidence is that maximum, and the probabilities sum to one.
C7_ClassifierRecord ==
    /\ "cough_classifier" \in DOMAIN results =>
         /\ IsClassifierRecord(results["cough_classifier"], CoughClasses)
         /\ Cardinality(DOMAIN results["cough_classifier"].probabilities) = 4
    /\ "breathing_analyzer" \in DOMAIN results =>
         /\ IsClassifierRecord(results["breathing_analyzer"], BreathingClasses)
         /\ Cardinality(DOMAIN results["breathing_analyzer"].probabilities) = 5

\* C7 witness: both classifiers wrote a record, each with a tie for the
\* maximum that was resolved to the earlier label.
C7_Witness ==
    /\ "cough_classifier" \in DOMAIN results
    /\ "breathing_analyzer" \in DOMAIN results
    /\ LET c == results["cough_classifier"]
           b == results["breathing_analyzer"]
       IN /\ c.prediction = "covid"
          /\ c.probabilities["bronchitis"] = c.confidence
          /\ ProbLess(c.probabilities["normal"], c.confidence)
          /\ b.prediction = "crackle"
          /\ b.probabilities["rhonchi"] = b.confidence

\* C8: a feature key is in the returned features iff its toggle is enabled;
\* with only extract_mfcc enabled, transcribe off and no models, the report
\* on valid audio is exactly {features: {mfcc}}.
C8_FeaturesFollowToggles ==
    "features" \in DOMAIN results =>
        LET keys == DOMAIN results["features"] IN
          /\ "mfcc" \in keys <=> ConfigGet(config, "extract_mfcc", TRUE)
          /\ "spectral_centroid" \in keys
                <=> ConfigGet(config, "extract_spectral_centroid", TRUE)
          /\ "chroma_energy" \in keys <=> ConfigGet(config, "extract_chroma", TRUE)
          /\ "tempo" \in keys <=> ConfigGet(config, "extract_tempo", TRUE)
          /\ keys \subseteq {"mfcc", "spectral_centroid", "chroma_energy", "tempo"}
          /\ (/\ pc = "done"
              /\ modelNames = <<>>
              /\ config = [k \in ToggleKeys |-> k = "extract_mfcc"]
              /\ escaped = <<>>) =>
                 (DOMAIN results = {"features"} /\ keys = {"mfcc"})

\* C9: on any valid clip, with cough_classifier loaded (untrained) and nothing
\* else failing, the report has a cough_classifier record with exactly the 4
\* labels as probabilities and no "error" key.
C9_ShortClipClassified ==
    (/\ pc = "done"
     /\ audio_path.ok
     /\ audio_path.n > 0
     /\ models = <<"cough_classifier">>
     /\ escaped \in {<<>>, <<ShapeMsg>>}) =>
        /\ "cough_classifier" \in DOMAIN results
        /\ DOMAIN results["cough_classifier"].probabilities = ToSet(CoughClasses)
        /\ "error" \notin DOMAIN results

\* C10: a failed transcription is stored as transcript "", puts no "error" in
\* the report by itself (an error then comes from a model invocation), and
\* dispatch still runs: the first loaded model is invoked, and all of them
\* unless one of them raised; the transcript key is missing from a returned
\* report only if transcribe is off or an earlier stage failed.
C10_TranscriptionFailureIsolated ==
    /\ transFailed =>
         /\ "transcript" \in DOMAIN results
         /\ results["transcript"] = ""
         /\ pc \in {"dispatch", "done"}
         /\ "features" \in DOMAIN results
         /\ "error" \in DOMAIN results =>
               (invoked # <<>> /\ escaped # <<>> /\ escaped[1] \in DispatchMsgs)
         /\ pc = "done" =>
               /\ models # <<>> => (invoked # <<>> /\ invoked[1] = models[1])
               /\ "error" \notin DOMAIN results =>
                     (invoked = models /\ Range(models) \subseteq DOMAIN results)
    /\ (pc = "done" /\ "transcript" \notin DOMAIN results) =>
         \/ ~ConfigGet(config, "transcribe", TRUE)
         \/ (escaped # <<>> /\ invoked = <<>>
             /\ (~audio_path.ok \/ "features" \notin DOMAIN results))

\* C10 witness: whisper raised, yet every loaded model was invoked and wrote
\* its record, and the report has transcript "" and no error.
C10_Witness ==
    /\ pc = "done"
    /\ transFailed
    /\ Len(models) = 2
    /\ Range(models) \subseteq DOMAIN results
    /\ results["transcript"] = ""
    /\ "error" \notin DOMAIN results

====
